---- MODULE Spec2Model ----
(***************************************************************************)
(* Vehicle Link Manager of the Rover ground-control station:               *)
(*   - MAVLinkConnection       (mavlink_module/connection.py)              *)
(*   - RoverTelemetryProcessor (mavlink_module/telemetry.py)               *)
(*   - RoverController         (mavlink_module/rover_controller.py, the    *)
(*     controller exported by mavlink_module/__init__.py and used by app)  *)
(*                                                                         *)
(* Three specifications share the variables:                               *)
(*   Spec      the Rover Controller over an abstract link                  *)
(*   SpecConn  the Connection Manager, with a clock in seconds             *)
(*   SpecTel   the Telemetry Aggregator                                    *)
(***************************************************************************)
EXTENDS Integers, Sequences, FiniteSets, TLC

\* ------------------------------------------------------------------ bounds
MaxQueued == 1         \* fired timer callbacks of one kind waiting to run
MaxNow == 1            \* readings of time.time(): 1..MaxNow
MaxAge == 7            \* heartbeat ages above this are not told apart
MaxHbTimers == 2       \* heartbeat timers alive when a connect() may begin
MaxClock == 4          \* readings of the history clock: 0..MaxClock
\* the history sizes, scaled down: the order deque cap < point cap is kept
MaxHistoryPoints == 2  \* config.PERFORMANCE_CHARTS['max_data_points'] (300)
PlaybackWindow == 2    \* app.playback_buffer_seconds (300 s), in clock units
PointCap == 3          \* the count cap of app.py (5000)

\* -------------------------------------------------------- program constants
RC_OVERRIDE_MIN == 1000
RC_OVERRIDE_MAX == 2000
FRAME_MIN == 1000
FRAME_MAX == 2000
MAX_THROTTLE_OVERRIDE == 1800
MAX_STEERING_OVERRIDE == 1800
RC_OVERRIDE_SAFETY_TIMEOUT == 5
THROTTLE == 1
STEERING == 2
HbTimeout == 5
WatchdogPeriod == 1
NEUTRAL == 1500
VOLT_SENTINEL == 65535

\* the channels of config.RC_CHANNELS that drive the rover; the controller
\* treats every channel number alike
Chans == {THROTTLE, STEERING}
\* pulse-widths a caller may request: below the range, inside, above the range
ReqValues == {900, 1700, 2500}
\* timeout arguments of set_rc_override: 0 stands for None (the code treats
\* both alike), a positive and a negative number of seconds
Timeouts == {0, 2, -1}

Max(a, b) == IF a > b THEN a ELSE b
Min(a, b) == IF a < b THEN a ELSE b

\* a Python dict from channel to value: a function on a subset of Chans
EmptyMap == [c \in {} |-> 0]
Maps(V) == UNION {[S -> V] : S \in SUBSET Chans}
Requests == Maps(ReqValues) \ {EmptyMap}
DictUpdate(m, s) ==
    [c \in (DOMAIN m) \cup (DOMAIN s) |-> IF c \in DOMAIN s THEN s[c] ELSE m[c]]
DictPop(m, chs) == [c \in (DOMAIN m) \ chs |-> m[c]]

VARIABLES
    \* --- MAVLinkConnection
    is_connected,          \* _is_connected
    connection,            \* "none" | "open": self.connection
    hbAge,                 \* time.time() - last_heartbeat, in seconds
    connEvent,             \* what last wrote _is_connected or returned from connect()
    heartbeat_timer,       \* "none" | "due" | "later": the pending timer referenced
    hbDue,                 \* heartbeat timers pending, expiring now
    hbLater,               \* heartbeat timers pending, expiring in WatchdogPeriod
    hbQueued,              \* _heartbeat_timer_callback threads started, not yet run
    reconnect_timer,       \* "none" | "pending"
    pcConn,                \* connect() per caller: "idle" | "wait" | "mid"
    running,               \* self.running
    rxPc,                  \* receive thread: "dead" | "top" (loop test) | "body"
    discReturned,          \* disconnect() returned and connect() was not called since
    lastMsg,               \* type of the message the receive loop processed last
    delivered,             \* the callbacks _process_message invoked for it, in order
    cbRaised,              \* the callbacks that raised while it was dispatched
    rover_configured,      \* self.rover_configured
    stream_rates_requested, \* self.stream_rates_requested
    cfgIssued,             \* times the data-stream configuration was issued since
                           \* connect() last reset the two flags
    lockOwner,             \* the thread holding RoverTelemetryProcessor.lock
                           \* ("tel") and RoverController.lock ("ctl")
    thPc,                  \* where the receive thread and a caller of the
                           \* controller are inside a handler or operation
    attitude_roll,         \* RoverTelemetryProcessor.attitude.roll_degrees
    battery_voltage,       \* RoverTelemetryProcessor.battery.voltage
    rc_channel,            \* RoverTelemetryProcessor.rc_channels.channels[0]
    getPc,                 \* get_dashboard_data: "idle" | "live" (past line 397)
    result,                \* the composite the last get_dashboard_data returned
    battery_remaining,     \* RoverTelemetryProcessor.battery.remaining
    battery_history,       \* RoverTelemetryProcessor.battery_history (timestamps)
    app_history,           \* app.py history_data['UGV1'][key] (timestamps)
    histNow,               \* time.time() as the history code reads it
    data_notified,         \* data type of the last battery handler's _notify_data_update
    \* --- RoverTelemetryProcessor
    tel_is_connected,      \* RoverTelemetryProcessor.is_connected
    \* --- RoverController
    rc_override_active,
    rc_override_channels,
    rc_override_timer,     \* "none" | "pending": None or a timer that ended
    rc_maintain_timer,     \* behaves as None wherever the code tests it
    ovQueued,              \* _rc_override_timeout callbacks fired, not yet run
    mtQueued,              \* _rc_maintain_callback callbacks fired, not yet run
    last_rc_override_time,
    emergency_stop_active,
    safety_limits_enabled,
    esPc,                  \* emergency_stop(): "idle" | "latched" | "cleared"
    esWasActive,           \* the override was Active when emergency_stop() began
    call,                  \* the controller call the last step returned from
    tx,                    \* RC_CHANNELS_OVERRIDE frames sent by the last step
    cmdTx                  \* "none" | "arm" | "disarm" | "set_mode": the command
                           \* message sent by the last step

linkVars == <<is_connected, connection, hbAge, connEvent, tel_is_connected>>
ovState == <<rc_override_active, rc_override_channels, rc_override_timer,
             rc_maintain_timer, last_rc_override_time>>
ctlVars == <<rc_override_active, rc_override_channels, rc_override_timer,
             rc_maintain_timer, ovQueued, mtQueued, last_rc_override_time,
             emergency_stop_active, safety_limits_enabled, esPc, esWasActive,
             call, tx, cmdTx>>
connVars == <<heartbeat_timer, hbDue, hbLater, hbQueued, reconnect_timer,
              pcConn, running, rxPc, discReturned>>
batVars == <<battery_remaining, battery_history, app_history, histNow,
             data_notified>>
telVars == <<attitude_roll, battery_voltage, rc_channel, getPc, result, batVars>>
dispVars == <<lastMsg, delivered, cbRaised>>
cfgVars == <<rover_configured, stream_rates_requested, cfgIssued>>
lockVars == <<lockOwner, thPc>>
notCtlVars == <<connVars, dispVars, cfgVars, lockVars, telVars>>
vars == <<linkVars, connVars, dispVars, cfgVars, lockVars, telVars, ctlVars>>

\* the two locks, and the threads that take them: the receive thread runs
\* the telemetry handlers, the application calls the controller
Locks == {"tel", "ctl"}
Threads == {"rx", "app"}

\* connect() is called by the application and by the reconnect timer
Callers == {"app", "timer"}

\* ================================================== MAVLinkConnection (link)

\* the value the is_connected property returns
IsConnectedGet(conn, age) == conn /\ ~(age > HbTimeout)

\* reading the property: a heartbeat older than 5 s flips _is_connected and
\* notifies the connection-status subscribers (the telemetry processor)
GetterFlips == is_connected /\ ~IsConnectedGet(is_connected, hbAge)
IsConnectedRead(by) ==
    /\ is_connected' = IsConnectedGet(is_connected, hbAge)
    /\ tel_is_connected' = IF GetterFlips THEN FALSE ELSE tel_is_connected
    /\ connEvent' = IF GetterFlips THEN by ELSE connEvent
ReadIsConnected ==
    /\ IsConnectedRead("gap_by_reader")
    /\ UNCHANGED <<connection, hbAge>>

\* MAVLinkConnection.send_rc_override: the frame it puts on the wire
FrameOf_unclamped(channels) ==
    [c \in Chans |-> IF c \in DOMAIN channels THEN channels[c] ELSE 0]
FrameOf(channels) ==
    [c \in Chans |-> IF c \in DOMAIN channels
                     THEN Max(FRAME_MIN, Min(channels[c], FRAME_MAX))
                     ELSE 0]
ZeroFrame == [c \in Chans |-> 0]

\* send_rc_override / clear_rc_override: the guard before the send, and the
\* send itself (sendOk: the transport accepted the frame)
send_rc_override_ok(connected, handle, sendOk) ==
    connected /\ handle # "none" /\ sendOk

\* ========================================================== RoverController

\* set_flight_mode: the connection check, then mav.set_mode_send; a missing
\* handle or a failing send raises and is caught
set_mode_sent(sendOk) ==
    IsConnectedGet(is_connected, hbAge) /\ connection # "none" /\ sendOk

\* arm_vehicle / disarm_vehicle: mav.command_long_send with no connection
\* check; a missing handle or a failing send raises and is caught
command_long_sent(sendOk) == connection # "none" /\ sendOk

check_rc_override_safety_off(latch) == TRUE
check_rc_override_safety(latch) == ~latch

apply_safety_limits(enabled, channels) ==
    IF ~enabled THEN channels
    ELSE [c \in DOMAIN channels |->
             Max(RC_OVERRIDE_MIN, Min(RC_OVERRIDE_MAX, channels[c]))]

\* timeout = timeout or config.RC_OVERRIDE_SAFETY_TIMEOUT; if timeout > 0
TimerArmed(timeout) ==
    LET t == IF timeout = 0 THEN RC_OVERRIDE_SAFETY_TIMEOUT ELSE timeout
    IN  t > 0

\* time.time() at a later read is no smaller than at an earlier one
NoCall == [op |-> "none", ret |-> FALSE]
NoResult == [connection_status |-> TRUE, offline_mode |-> FALSE, roll |-> 0,
             voltage |-> 0, rc |-> NEUTRAL, returned |-> FALSE]

TimeReadings(last) == {t \in 1..MaxNow : t >= last}

Init ==
    /\ is_connected = FALSE
    /\ connection = "none"
    /\ hbAge = MaxAge
    /\ connEvent = "init"
    /\ tel_is_connected = FALSE
    /\ heartbeat_timer = "none"
    /\ hbDue = 0
    /\ hbLater = 0
    /\ hbQueued = 0
    /\ reconnect_timer = "none"
    /\ pcConn = [w \in Callers |-> "idle"]
    /\ running = FALSE
    /\ rxPc = "dead"
    /\ discReturned = FALSE
    /\ lastMsg = "none"
    /\ delivered = <<>>
    /\ cbRaised = {}
    /\ rover_configured = FALSE
    /\ stream_rates_requested = FALSE
    /\ cfgIssued = 0
    /\ lockOwner = [l \in Locks |-> "none"]
    /\ thPc = [t \in Threads |-> "idle"]
    /\ attitude_roll = 0
    /\ battery_voltage = 0
    /\ rc_channel = NEUTRAL
    /\ getPc = "idle"
    /\ result = NoResult
    /\ battery_remaining = 0
    /\ battery_history = <<>>
    /\ app_history = <<>>
    /\ histNow = 0
    /\ data_notified = "none"
    /\ rc_override_active = FALSE
    /\ rc_override_channels = EmptyMap
    /\ rc_override_timer = "none"
    /\ rc_maintain_timer = "none"
    /\ ovQueued = 0
    /\ mtQueued = 0
    /\ last_rc_override_time = 0
    /\ emergency_stop_active = FALSE
    /\ safety_limits_enabled = TRUE
    /\ esPc = "idle"
    /\ esWasActive = FALSE
    /\ call = NoCall
    /\ tx = <<>>
    /\ cmdTx = "none"

\* rc_override_channels.update(safe_channels) runs only after the send succeeded
ChannelsAfterSet_eager(sent, old, safe) == DictUpdate(old, safe)
ChannelsAfterSet(sent, old, safe) == IF sent THEN DictUpdate(old, safe) ELSE old

set_rc_override(req, timeout, sendOk) ==
    LET connected == IsConnectedGet(is_connected, hbAge)
        allowed == connected /\ check_rc_override_safety(emergency_stop_active)
        safe == apply_safety_limits(safety_limits_enabled, req)
        sent == allowed /\ send_rc_override_ok(connected, connection, sendOk)
    IN  /\ ReadIsConnected
        /\ tx' = IF sent THEN <<FrameOf(safe)>> ELSE <<>>
        /\ rc_override_channels' = ChannelsAfterSet(sent, rc_override_channels, safe)
        /\ IF sent
           THEN /\ rc_override_active' = TRUE
                /\ last_rc_override_time' \in TimeReadings(last_rc_override_time)
                \* _reset_rc_override_timer: stop both, arm the deadline when
                \* the timeout is positive, start the refresh timer
                /\ rc_override_timer' = IF TimerArmed(timeout) THEN "pending" ELSE "none"
                /\ rc_maintain_timer' = "pending"
           ELSE UNCHANGED <<rc_override_active, last_rc_override_time,
                            rc_override_timer, rc_maintain_timer>>
        /\ call' = [op |-> "set_rc_override", ret |-> sent]
        /\ UNCHANGED <<ovQueued, mtQueued, emergency_stop_active,
                       safety_limits_enabled, esPc, esWasActive>>

\* the transport and the timeout are consulted only by a call that gets as
\* far as the send
SetRcOverride == \E req \in Requests, timeout \in Timeouts, sendOk \in BOOLEAN :
    /\ (~IsConnectedGet(is_connected, hbAge) \/ emergency_stop_active)
          => (sendOk /\ timeout = 0)
    /\ ~sendOk => timeout = 0
    /\ set_rc_override(req, timeout, sendOk)
    /\ cmdTx' = "none"
    /\ UNCHANGED notCtlVars

\* clear_rc_override that leaves the timers armed when the map becomes empty
clear_rc_override_keep_timers(all, chs, sendOk) ==
    LET connected == IsConnectedGet(is_connected, hbAge)
        ok == IF ~all /\ chs = {}
              THEN connected /\ connection # "none"
              ELSE send_rc_override_ok(connected, connection, sendOk)
        frame == IF all THEN ZeroFrame ELSE FrameOf([c \in chs |-> 0])
        left == IF all THEN EmptyMap ELSE DictPop(rc_override_channels, chs)
    IN  /\ ReadIsConnected
        /\ tx' = IF ok /\ (all \/ chs # {}) THEN <<frame>> ELSE <<>>
        /\ rc_override_channels' = IF ok THEN left ELSE rc_override_channels
        /\ rc_override_active' = IF ok /\ left = EmptyMap THEN FALSE
                                 ELSE rc_override_active
        /\ UNCHANGED <<rc_override_timer, rc_maintain_timer,
                       last_rc_override_time>>

\* RoverController.clear_rc_override on the controller's override state:
\* all = TRUE is channels=None, otherwise chs is the list of channels
clear_rc_override(all, chs, sendOk) ==
    LET connected == IsConnectedGet(is_connected, hbAge)
        \* MAVLinkConnection.clear_rc_override: an empty list sends nothing
        \* and reports success
        ok == IF ~all /\ chs = {}
              THEN connected /\ connection # "none"
              ELSE send_rc_override_ok(connected, connection, sendOk)
        frame == IF all THEN ZeroFrame ELSE FrameOf([c \in chs |-> 0])
        left == IF all THEN EmptyMap ELSE DictPop(rc_override_channels, chs)
    IN  /\ ReadIsConnected
        /\ tx' = IF ok /\ (all \/ chs # {}) THEN <<frame>> ELSE <<>>
        /\ IF ok
           THEN /\ rc_override_channels' = left
                /\ IF left = EmptyMap
                   THEN /\ rc_override_active' = FALSE
                        \* _stop_rc_override_timer
                        /\ rc_override_timer' = "none"
                        /\ rc_maintain_timer' = "none"
                   ELSE UNCHANGED <<rc_override_active, rc_override_timer,
                                    rc_maintain_timer>>
           ELSE UNCHANGED <<rc_override_channels, rc_override_active,
                            rc_override_timer, rc_maintain_timer>>
        /\ UNCHANGED last_rc_override_time

ClearOk(all, chs, sendOk) ==
    IF ~all /\ chs = {}
    THEN IsConnectedGet(is_connected, hbAge) /\ connection # "none"
    ELSE send_rc_override_ok(IsConnectedGet(is_connected, hbAge), connection, sendOk)

ClearRcOverride == \E all \in BOOLEAN, chs \in SUBSET Chans, sendOk \in BOOLEAN :
    /\ all => chs = {}
    /\ clear_rc_override(all, chs, sendOk)
    /\ call' = [op |-> "clear_rc_override", ret |-> ClearOk(all, chs, sendOk)]
    /\ UNCHANGED <<ovQueued, mtQueued, emergency_stop_active,
                   safety_limits_enabled, esPc, esWasActive>>
    /\ cmdTx' = "none"
    /\ UNCHANGED notCtlVars

\* threading.Timer of the safety deadline expires: its thread starts
\* _rc_override_timeout, which waits for the controller lock
OvFire ==
    /\ rc_override_timer = "pending"
    /\ ovQueued < MaxQueued
    /\ rc_override_timer' = "none"
    /\ ovQueued' = ovQueued + 1
    /\ tx' = <<>>
    /\ call' = NoCall
    /\ UNCHANGED <<linkVars, rc_override_active, rc_override_channels,
                   rc_maintain_timer, mtQueued, last_rc_override_time,
                   emergency_stop_active, safety_limits_enabled, esPc,
                   esWasActive>>
    /\ cmdTx' = "none"
    /\ UNCHANGED notCtlVars

\* _rc_override_timeout runs under the lock: clear_rc_override()
rc_override_timeout == \E sendOk \in BOOLEAN :
    /\ ovQueued > 0
    /\ ovQueued' = ovQueued - 1
    /\ clear_rc_override(TRUE, {}, sendOk)
    /\ call' = NoCall
    /\ UNCHANGED <<mtQueued, emergency_stop_active, safety_limits_enabled,
                   esPc, esWasActive>>
    /\ cmdTx' = "none"
    /\ UNCHANGED notCtlVars

\* threading.Timer of the refresh expires
MtFire ==
    /\ rc_maintain_timer = "pending"
    /\ mtQueued < MaxQueued
    /\ rc_maintain_timer' = "none"
    /\ mtQueued' = mtQueued + 1
    /\ tx' = <<>>
    /\ call' = NoCall
    /\ UNCHANGED <<linkVars, rc_override_active, rc_override_channels,
                   rc_override_timer, ovQueued, last_rc_override_time,
                   emergency_stop_active, safety_limits_enabled, esPc,
                   esWasActive>>
    /\ cmdTx' = "none"
    /\ UNCHANGED notCtlVars

\* _rc_maintain_callback with a failed send that arms the timer again
rc_maintain_callback_retry == \E sendOk \in BOOLEAN :
    /\ mtQueued > 0
    /\ mtQueued' = mtQueued - 1
    /\ IF rc_override_active /\ rc_override_channels # EmptyMap
       THEN LET sent == send_rc_override_ok(IsConnectedGet(is_connected, hbAge),
                                            connection, sendOk)
            IN  /\ ReadIsConnected
                /\ tx' = IF sent THEN <<FrameOf(rc_override_channels)>> ELSE <<>>
                /\ rc_maintain_timer' = "pending"
                /\ UNCHANGED <<rc_override_active, rc_override_timer>>
       ELSE /\ tx' = <<>>
            /\ UNCHANGED <<linkVars, rc_override_active, rc_override_timer,
                           rc_maintain_timer>>
    /\ call' = NoCall
    /\ UNCHANGED <<rc_override_channels, ovQueued, last_rc_override_time,
                   emergency_stop_active, safety_limits_enabled, esPc,
                   esWasActive>>
    /\ cmdTx' = "none"
    /\ UNCHANGED notCtlVars

\* _rc_maintain_callback runs under the lock
rc_maintain_callback == \E sendOk \in BOOLEAN :
    /\ mtQueued > 0
    /\ mtQueued' = mtQueued - 1
    /\ IF rc_override_active /\ rc_override_channels # EmptyMap
       THEN LET sent == send_rc_override_ok(IsConnectedGet(is_connected, hbAge),
                                            connection, sendOk)
            IN  /\ ReadIsConnected
                /\ tx' = IF sent THEN <<FrameOf(rc_override_channels)>> ELSE <<>>
                /\ IF sent
                   THEN \* _start_rc_maintain_timer: cancel, arm again
                        /\ rc_maintain_timer' = "pending"
                        /\ UNCHANGED <<rc_override_active, rc_override_timer>>
                   ELSE /\ rc_override_active' = FALSE
                        /\ rc_override_timer' = "none"
                        /\ rc_maintain_timer' = "none"
       ELSE /\ tx' = <<>>
            /\ UNCHANGED <<linkVars, rc_override_active, rc_override_timer,
                           rc_maintain_timer>>
    /\ call' = NoCall
    /\ UNCHANGED <<rc_override_channels, ovQueued, last_rc_override_time,
                   emergency_stop_active, safety_limits_enabled, esPc,
                   esWasActive>>
    /\ cmdTx' = "none"
    /\ UNCHANGED notCtlVars

\* emergency_stop(), line 176: the latch is set, outside the lock
EStopBegin ==
    /\ esPc = "idle"
    /\ esPc' = "latched"
    /\ emergency_stop_active' = TRUE
    /\ esWasActive' = rc_override_active
    /\ tx' = <<>>
    /\ call' = NoCall
    /\ UNCHANGED <<linkVars, ovState, ovQueued, mtQueued,
                   safety_limits_enabled>>
    /\ cmdTx' = "none"
    /\ UNCHANGED notCtlVars

\* emergency_stop(), line 177: clear_rc_override(), its result is dropped
EStopClear == \E sendOk \in BOOLEAN :
    /\ esPc = "latched"
    /\ esPc' = "cleared"
    /\ clear_rc_override(TRUE, {}, sendOk)
    /\ call' = NoCall
    /\ UNCHANGED <<ovQueued, mtQueued, emergency_stop_active,
                   safety_limits_enabled, esWasActive>>
    /\ cmdTx' = "none"
    /\ UNCHANGED notCtlVars

\* emergency_stop(), lines 178-181: set_flight_mode(HOLD) reads the link
\* state, its result is dropped; the call returns True
EStopReturn ==
    /\ esPc = "cleared"
    /\ esPc' = "idle"
    /\ ReadIsConnected
    /\ tx' = <<>>
    /\ call' = [op |-> "emergency_stop", ret |-> TRUE]
    /\ esWasActive' = FALSE
    /\ UNCHANGED <<ovState, ovQueued, mtQueued, emergency_stop_active,
                   safety_limits_enabled>>
    /\ \E sendOk \in BOOLEAN :
          cmdTx' = IF set_mode_sent(sendOk) THEN "set_mode" ELSE "none"
    /\ UNCHANGED notCtlVars

release_emergency_stop ==
    /\ emergency_stop_active' = FALSE
    /\ tx' = <<>>
    /\ call' = [op |-> "release_emergency_stop", ret |-> TRUE]
    /\ UNCHANGED <<linkVars, ovState, ovQueued, mtQueued,
                   safety_limits_enabled, esPc, esWasActive>>
    /\ cmdTx' = "none"
    /\ UNCHANGED notCtlVars

enable_safety_limits == \E enable \in BOOLEAN :
    /\ safety_limits_enabled' = enable
    /\ tx' = <<>>
    /\ call' = NoCall
    /\ UNCHANGED <<linkVars, ovState, ovQueued, mtQueued,
                   emergency_stop_active, esPc, esWasActive>>
    /\ cmdTx' = "none"
    /\ UNCHANGED notCtlVars

\* set_flight_mode whose failure drops the override
set_flight_mode_failure_resets == \E sendOk \in BOOLEAN :
    /\ ReadIsConnected
    /\ cmdTx' = IF set_mode_sent(sendOk) THEN "set_mode" ELSE "none"
    /\ call' = [op |-> "set_flight_mode", ret |-> set_mode_sent(sendOk)]
    /\ tx' = <<>>
    /\ rc_override_active' = (rc_override_active /\ set_mode_sent(sendOk))
    /\ UNCHANGED <<rc_override_channels, rc_override_timer, rc_maintain_timer,
                   last_rc_override_time, ovQueued, mtQueued,
                   emergency_stop_active, safety_limits_enabled, esPc,
                   esWasActive>>
    /\ UNCHANGED notCtlVars

\* set_flight_mode(mode) with a RoverMode or int: refused when is_connected
\* reads false; otherwise SET_MODE is sent unless the send raises
set_flight_mode == \E sendOk \in BOOLEAN :
    /\ ReadIsConnected
    /\ cmdTx' = IF set_mode_sent(sendOk) THEN "set_mode" ELSE "none"
    /\ call' = [op |-> "set_flight_mode", ret |-> set_mode_sent(sendOk)]
    /\ tx' = <<>>
    /\ UNCHANGED <<ovState, ovQueued, mtQueued, emergency_stop_active,
                   safety_limits_enabled, esPc, esWasActive>>
    /\ UNCHANGED notCtlVars

\* arm_vehicle(): COMMAND_LONG 400 with param1 = 1 is sent through the
\* transport handle; is_connected is not read
arm_vehicle == \E sendOk \in BOOLEAN :
    /\ cmdTx' = IF command_long_sent(sendOk) THEN "arm" ELSE "none"
    /\ call' = [op |-> "arm_vehicle", ret |-> command_long_sent(sendOk)]
    /\ tx' = <<>>
    /\ UNCHANGED <<linkVars, ovState, ovQueued, mtQueued,
                   emergency_stop_active, safety_limits_enabled, esPc,
                   esWasActive>>
    /\ UNCHANGED notCtlVars

\* disarm_vehicle(): the same with param1 = 0
disarm_vehicle == \E sendOk \in BOOLEAN :
    /\ cmdTx' = IF command_long_sent(sendOk) THEN "disarm" ELSE "none"
    /\ call' = [op |-> "disarm_vehicle", ret |-> command_long_sent(sendOk)]
    /\ tx' = <<>>
    /\ UNCHANGED <<linkVars, ovState, ovQueued, mtQueued,
                   emergency_stop_active, safety_limits_enabled, esPc,
                   esWasActive>>
    /\ UNCHANGED notCtlVars

\* --- the link as the controller meets it
\* connect() succeeded, or a heartbeat was recorded on a live link
LinkUp ==
    /\ is_connected' = TRUE
    /\ connection' = "open"
    /\ hbAge' = 0
    /\ tel_is_connected' = TRUE
    /\ connEvent' = "connect"
    /\ tx' = <<>>
    /\ call' = NoCall
    /\ UNCHANGED <<ovState, ovQueued, mtQueued, emergency_stop_active,
                   safety_limits_enabled, esPc, esWasActive>>
    /\ cmdTx' = "none"
    /\ UNCHANGED notCtlVars

\* more than 5 s pass without a heartbeat
LinkSilent ==
    /\ hbAge <= HbTimeout
    /\ hbAge' = MaxAge
    /\ tx' = <<>>
    /\ call' = NoCall
    /\ UNCHANGED <<is_connected, connection, connEvent, tel_is_connected,
                   ovState, ovQueued, mtQueued, emergency_stop_active,
                   safety_limits_enabled, esPc, esWasActive>>
    /\ cmdTx' = "none"
    /\ UNCHANGED notCtlVars

\* disconnect()
LinkDown ==
    /\ connection = "open"
    /\ is_connected' = FALSE
    /\ connection' = "none"
    /\ tel_is_connected' = FALSE
    /\ connEvent' = "disconnect"
    /\ tx' = <<>>
    /\ call' = NoCall
    /\ UNCHANGED <<hbAge, ovState, ovQueued, mtQueued, emergency_stop_active,
                   safety_limits_enabled, esPc, esWasActive>>
    /\ cmdTx' = "none"
    /\ UNCHANGED notCtlVars

Next ==
    \/ SetRcOverride
    \/ ClearRcOverride
    \/ OvFire
    \/ rc_override_timeout
    \/ MtFire
    \/ rc_maintain_callback
    \/ EStopBegin
    \/ EStopClear
    \/ EStopReturn
    \/ release_emergency_stop
    \/ enable_safety_limits
    \/ set_flight_mode
    \/ arm_vehicle
    \/ disarm_vehicle
    \/ LinkUp
    \/ LinkSilent
    \/ LinkDown

Spec == Init /\ [][Next]_vars

\* ======================================= MAVLinkConnection (the manager)
\* connect(), the heartbeat timer chain, the reconnect timer, the receive
\* thread and disconnect().  Time advances in steps of WatchdogPeriod; a
\* timer that is due fires, and its callback runs, before time advances.

\* --- the data-stream configuration
\* _configure_rover_data_streams, lines 181-182: the guard; past it the
\* requests are sent (each in its own try) and stream_rates_requested is set
configure_runs(conn, age, handle) == IsConnectedGet(conn, age) /\ handle # "none"

\* _process_message, lines 583-585, on a HEARTBEAT: _is_connected is True
\* and last_heartbeat is fresh by then; rover_configured is set whatever
\* the configuration returned
configure_on_heartbeat ==
    /\ rover_configured' = TRUE
    /\ IF ~rover_configured /\ configure_runs(TRUE, 0, connection)
       THEN stream_rates_requested' = TRUE /\ cfgIssued' = cfgIssued + 1
       ELSE UNCHANGED <<stream_rates_requested, cfgIssued>>

\* --- dispatch of a decoded message to the registered callbacks
MsgTypes == {"HEARTBEAT", "ATTITUDE"}
Subscribers == {"cb1", "cb2"}

\* message_callbacks after registration: the callbacks of a type, in the
\* order they were registered
message_callbacks == [t \in MsgTypes |-> <<"cb1", "cb2">>]

\* the callbacks reached by the for loop of _process_message
\* with one try around the whole loop, the first exception ends the loop
RECURSIVE Invoked_unguarded(_, _)
Invoked_unguarded(cbs, raises) ==
    IF cbs = <<>> THEN <<>>
    ELSE IF Head(cbs) \in raises THEN <<Head(cbs)>>
    ELSE <<Head(cbs)>> \o Invoked_unguarded(Tail(cbs), raises)

\* each callback is called inside its own try/except: an exception is
\* logged and the loop goes on to the next callback
RECURSIVE Invoked(_, _)
Invoked(cbs, raises) ==
    IF cbs = <<>> THEN <<>>
    ELSE <<Head(cbs)>> \o Invoked(Tail(cbs), raises)

Dispatch(msg, raises) ==
    /\ lastMsg' = msg
    /\ delivered' = Invoked(message_callbacks[msg], raises)
    /\ cbRaised' = {c \in raises : \E i \in 1..Len(delivered') : delivered'[i] = c}

\* recv_match returned None: _process_message is not called
NoDispatch ==
    /\ lastMsg' = "none"
    /\ delivered' = <<>>
    /\ cbRaised' = {}

\* the is_connected setter notifies the subscribers when the value changes
Notified(old, new, seen) == IF old # new THEN new ELSE seen

HbTimers == hbDue + hbLater + hbQueued

\* _heartbeat_timer_callback, lines 608-628, run on the given flag and
\* heartbeat age; the clock reads of one run are one instant
WatchdogBody(conn, age, sendOk) ==
    LET live == connection # "none"
        flips == live /\ conn /\ ~IsConnectedGet(conn, age)
        guard == live /\ IsConnectedGet(conn, age)
        sendErr == guard /\ ~sendOk
        gap == guard /\ sendOk /\ age > HbTimeout
    IN  [conn |-> conn /\ ~flips /\ ~sendErr /\ ~gap,
         rearm |-> sendErr \/ gap,
         ev |-> IF flips \/ gap THEN "gap_by_watchdog"
                ELSE IF sendErr THEN "send_error" ELSE "none"]

\* connect(), lines 106-126: the transport is opened, or opening it raises
\* and the except path (171-175) runs
connect_open(w, opened) ==
    /\ pcConn[w] = "idle"
    /\ HbTimers < MaxHbTimers
    /\ IF opened
       THEN /\ connection' = "open"
            /\ pcConn' = [pcConn EXCEPT ![w] = "wait"]
            /\ reconnect_timer' = IF w = "timer" THEN "none" ELSE reconnect_timer
            /\ UNCHANGED <<is_connected, tel_is_connected, connEvent>>
       ELSE /\ is_connected' = FALSE
            /\ tel_is_connected' = Notified(is_connected, FALSE, tel_is_connected)
            /\ connEvent' = "connect_error"
            /\ reconnect_timer' = "pending"
            /\ UNCHANGED <<connection, pcConn>>
    /\ UNCHANGED <<hbAge, heartbeat_timer, hbDue, hbLater, hbQueued, running,
                   rxPc, dispVars, cfgVars, lockVars, telVars, ctlVars>>

\* the application calls connect()
connect == \E opened \in BOOLEAN :
    /\ connect_open("app", opened)
    /\ discReturned' = FALSE

\* the reconnect timer expires: _reconnect_timer_callback calls connect()
reconnect_timer_callback == \E opened \in BOOLEAN :
    /\ reconnect_timer = "pending"
    /\ connect_open("timer", opened)
    /\ UNCHANGED discReturned

\* connect(), lines 129-134: wait_heartbeat returned nothing; called from the
\* reconnect timer, the False result arms the timer again (664-665)
connect_timeout == \E w \in Callers :
    /\ pcConn[w] = "wait"
    /\ pcConn' = [pcConn EXCEPT ![w] = "idle"]
    /\ is_connected' = FALSE
    /\ tel_is_connected' = Notified(is_connected, FALSE, tel_is_connected)
    /\ connEvent' = "connect_timeout"
    /\ reconnect_timer' = IF w = "timer" THEN "pending" ELSE reconnect_timer
    /\ UNCHANGED <<connection, hbAge, heartbeat_timer, hbDue, hbLater, hbQueued,
                   running, rxPc, discReturned, dispVars, cfgVars, lockVars, telVars, ctlVars>>

\* connect(), lines 171-175: the transport raised while waiting
connect_error == \E w \in Callers :
    /\ pcConn[w] = "wait"
    /\ pcConn' = [pcConn EXCEPT ![w] = "idle"]
    /\ is_connected' = FALSE
    /\ tel_is_connected' = Notified(is_connected, FALSE, tel_is_connected)
    /\ connEvent' = "connect_error"
    /\ reconnect_timer' = "pending"
    /\ UNCHANGED <<connection, hbAge, heartbeat_timer, hbDue, hbLater, hbQueued,
                   running, rxPc, discReturned, dispVars, cfgVars, lockVars, telVars, ctlVars>>

\* connect(), lines 129-148: a heartbeat arrived; is_connected = True is
\* stored before last_heartbeat is
connect_heartbeat == \E w \in Callers :
    /\ pcConn[w] = "wait"
    /\ connection # "none"
    /\ pcConn' = [pcConn EXCEPT ![w] = "mid"]
    /\ is_connected' = TRUE
    /\ tel_is_connected' = Notified(is_connected, TRUE, tel_is_connected)
    /\ connEvent' = "connect_ok"
    /\ UNCHANGED <<connection, hbAge, heartbeat_timer, hbDue, hbLater, hbQueued,
                   reconnect_timer, running, rxPc, discReturned, dispVars, cfgVars, lockVars, telVars,
                   ctlVars>>

\* connect(), lines 149-169: last_heartbeat, _start_heartbeat_timer (one
\* synchronous run of the callback, which arms the first timer),
\* _start_receive_thread, the notification, return True
connect_finish == \E w \in Callers, sendOk \in BOOLEAN :
    LET r == WatchdogBody(is_connected, 0, sendOk)
    IN  /\ pcConn[w] = "mid"
        /\ pcConn' = [pcConn EXCEPT ![w] = "idle"]
        /\ hbAge' = 0
        /\ is_connected' = r.conn
        /\ connEvent' = IF r.ev = "none" THEN "connect_ok" ELSE r.ev
        /\ reconnect_timer' = IF r.rearm THEN "pending" ELSE reconnect_timer
        /\ hbLater' = hbLater + 1
        /\ heartbeat_timer' = "later"
        /\ IF rxPc = "dead"
           THEN running' = TRUE /\ rxPc' = "top"
           ELSE UNCHANGED <<running, rxPc>>
        /\ tel_is_connected' = TRUE
        \* lines 150-154: both flags reset, then the configuration
        /\ rover_configured' = FALSE
        /\ stream_rates_requested' = configure_runs(is_connected, 0, connection)
        /\ cfgIssued' = IF configure_runs(is_connected, 0, connection) THEN 1 ELSE 0
        /\ UNCHANGED <<connection, hbDue, hbQueued, discReturned, dispVars,
                       lockVars, telVars, ctlVars>>

\* WatchdogPeriod passes
Tick ==
    /\ hbDue = 0
    /\ hbQueued = 0
    /\ rxPc # "body"
    /\ \A w \in Callers : pcConn[w] # "mid"
    /\ hbAge' = Min(hbAge + 1, MaxAge)
    /\ hbDue' = hbLater
    /\ hbLater' = 0
    /\ heartbeat_timer' = IF heartbeat_timer = "later" THEN "due" ELSE heartbeat_timer
    /\ UNCHANGED <<is_connected, connection, connEvent, tel_is_connected,
                   hbQueued, reconnect_timer, pcConn, running, rxPc,
                   discReturned, dispVars, cfgVars, lockVars, telVars, ctlVars>>

\* a heartbeat threading.Timer expires: its thread is started; refFires: it
\* is the timer self.heartbeat_timer refers to
HbFire == \E refFires \in BOOLEAN :
    /\ hbDue > 0
    /\ refFires => heartbeat_timer = "due"
    /\ (heartbeat_timer = "due" /\ hbDue = 1) => refFires
    /\ hbDue' = hbDue - 1
    /\ hbQueued' = hbQueued + 1
    /\ heartbeat_timer' = IF refFires THEN "none" ELSE heartbeat_timer
    /\ UNCHANGED <<linkVars, hbLater, reconnect_timer, pcConn, running, rxPc,
                   discReturned, dispVars, cfgVars, lockVars, telVars, ctlVars>>

\* _heartbeat_timer_callback runs and arms the next timer in its finally
heartbeat_timer_callback == \E sendOk \in BOOLEAN :
    LET r == WatchdogBody(is_connected, hbAge, sendOk)
    IN  /\ hbQueued > 0
        /\ hbQueued' = hbQueued - 1
        /\ is_connected' = r.conn
        /\ tel_is_connected' = Notified(is_connected, r.conn, tel_is_connected)
        /\ connEvent' = IF r.ev = "none" THEN connEvent ELSE r.ev
        /\ reconnect_timer' = IF r.rearm THEN "pending" ELSE reconnect_timer
        /\ hbLater' = hbLater + 1
        /\ heartbeat_timer' = "later"
        /\ UNCHANGED <<connection, hbAge, hbDue, pcConn, running, rxPc,
                       discReturned, dispVars, cfgVars, lockVars, telVars, ctlVars>>

\* disconnect(): the flags, cancel() of the two referenced timers, join of
\* the receive thread (which finishes the message it is processing), close,
\* the notification
disconnect == \E hb \in BOOLEAN, raises \in SUBSET Subscribers :
    /\ pcConn["app"] = "idle"
    /\ hb => rxPc = "body"
    /\ IF hb THEN Dispatch("HEARTBEAT", raises) /\ configure_on_heartbeat
             ELSE raises = {} /\ UNCHANGED <<dispVars, cfgVars>>
    /\ is_connected' = hb
    /\ hbAge' = IF hb THEN 0 ELSE hbAge
    /\ running' = FALSE
    /\ heartbeat_timer' = "none"
    /\ hbDue' = IF heartbeat_timer = "due" THEN hbDue - 1 ELSE hbDue
    /\ hbLater' = IF heartbeat_timer = "later" THEN hbLater - 1 ELSE hbLater
    /\ reconnect_timer' = "none"
    /\ rxPc' = "dead"
    /\ connection' = "none"
    /\ tel_is_connected' = FALSE
    /\ connEvent' = "disconnect"
    /\ discReturned' = TRUE
    /\ UNCHANGED <<hbQueued, pcConn, lockVars, telVars, ctlVars>>

\* _receive_loop, lines 551-554: the loop test and the handle test
receive_loop_test ==
    /\ rxPc = "top"
    /\ IF running
       THEN IsConnectedRead("gap_by_receive_loop")
       ELSE UNCHANGED <<is_connected, tel_is_connected, connEvent>>
    /\ rxPc' = IF running /\ IsConnectedGet(is_connected, hbAge)
                  /\ connection # "none"
               THEN "body" ELSE "dead"
    /\ UNCHANGED <<connection, hbAge, heartbeat_timer, hbDue, hbLater, hbQueued,
                   reconnect_timer, pcConn, running, discReturned, dispVars, cfgVars, lockVars, telVars,
                   ctlVars>>

\* _receive_loop, lines 557-560, and _process_message: msg is what
\* recv_match returned ("none": no message); a closed handle raises and the
\* loop goes round.  raises: the callbacks that raise for this message
process_message == \E msg \in MsgTypes \cup {"none"}, raises \in SUBSET Subscribers :
  LET hb == msg = "HEARTBEAT" IN
    /\ rxPc = "body"
    /\ rxPc' = "top"
    /\ msg # "none" => connection # "none"
    /\ IF msg = "none" THEN raises = {} /\ NoDispatch
                       ELSE Dispatch(msg, raises)
    /\ IF hb THEN configure_on_heartbeat ELSE UNCHANGED cfgVars
    /\ hbAge' = IF hb THEN 0 ELSE hbAge
    /\ is_connected' = (is_connected \/ hb)
    /\ tel_is_connected' = Notified(is_connected, is_connected \/ hb, tel_is_connected)
    /\ connEvent' = IF hb /\ ~is_connected THEN "heartbeat" ELSE connEvent
    /\ UNCHANGED <<connection, heartbeat_timer, hbDue, hbLater, hbQueued,
                   reconnect_timer, pcConn, running, discReturned, lockVars, telVars,
                   ctlVars>>

\* any other reader of the is_connected property (the controller, the
\* application's update loop)
is_connected_read ==
    /\ ReadIsConnected
    /\ UNCHANGED <<connVars, dispVars, cfgVars, lockVars, telVars, ctlVars>>

NextConn ==
    \/ connect
    \/ reconnect_timer_callback
    \/ connect_timeout
    \/ connect_error
    \/ connect_heartbeat
    \/ connect_finish
    \/ Tick
    \/ HbFire
    \/ heartbeat_timer_callback
    \/ disconnect
    \/ receive_loop_test
    \/ process_message
    \/ is_connected_read

SpecConn == Init /\ [][NextConn]_vars

\* ===================================================== claims, controller

Idle == ~rc_override_active
TimersCancelled == rc_override_timer = "none" /\ rc_maintain_timer = "none"
LinkUsable == IsConnectedGet(is_connected, hbAge) /\ connection # "none"

\* C1: from the moment emergency_stop() sets the latch until
\* release_emergency_stop() is called, every set_rc_override call returns
\* failure, transmits nothing and leaves the override state (active flag,
\* channel map, timers, last-refresh time) unchanged; the latch is cleared by
\* release_emergency_stop() only; and with the latch released a set_rc_override
\* call on a connected link is accepted again (it fails only as a call whose
\* frame the transport refuses fails).
SetReturns == call'.op = "set_rc_override"
C1_LatchBlocksSetOverride ==
    [][ /\ (SetReturns /\ emergency_stop_active) =>
              (~call'.ret /\ tx' = <<>> /\ UNCHANGED ovState)
        /\ (SetReturns /\ ~emergency_stop_active /\ LinkUsable) =>
              \/ call'.ret /\ rc_override_active' /\ Len(tx') = 1
              \/ ~call'.ret /\ \E req \in Requests : set_rc_override(req, 0, FALSE)
        /\ (emergency_stop_active /\ ~emergency_stop_active') =>
              call'.op = "release_emergency_stop"
      ]_vars

\* set_rc_override has just been rejected with the latch set, on a usable
\* link, after emergency_stop() had returned
C1_Witness ==
    /\ call = [op |-> "set_rc_override", ret |-> FALSE]
    /\ emergency_stop_active
    /\ esPc = "idle"
    /\ rc_override_active
    /\ LinkUsable

\* C2: whenever emergency_stop() is called while the override is Active, on
\* its return the channel map is empty, the controller is Idle and the refresh
\* timer and the safety-deadline timer are cancelled.
C2_EStopLeavesIdle ==
    [][ (esPc = "cleared" /\ esPc' = "idle" /\ esWasActive) =>
           (rc_override_channels' = EmptyMap /\ Idle' /\ TimersCancelled')
      ]_vars

\* C3: the value set_rc_override transmits for the throttle or the steering
\* channel is the request clamped to the configured max-override (1800), and
\* never below the protocol minimum.
ChannelLimit(c) ==
    IF c = THROTTLE THEN MAX_THROTTLE_OVERRIDE
    ELSE IF c = STEERING THEN MAX_STEERING_OVERRIDE
    ELSE RC_OVERRIDE_MAX
C3_ThrottleSteeringClamped ==
    [][ \A req \in Requests, timeout \in Timeouts, sendOk \in BOOLEAN :
           (set_rc_override(req, timeout, sendOk) /\ tx' # <<>>) =>
              \A c \in DOMAIN req :
                 /\ tx'[1][c] <= ChannelLimit(c)
                 /\ tx'[1][c] >= RC_OVERRIDE_MIN
                 /\ req[c] >= ChannelLimit(c) => tx'[1][c] = ChannelLimit(c)
      ]_vars

\* C4: when the safety deadline fires, the controller clears the full
\* override, whatever the link state or the send outcome at that moment: the
\* channel map is empty, the state is Idle and a clear frame has been sent.
C4_DeadlineClears ==
    [][ (ovQueued' = ovQueued - 1) =>
           (rc_override_channels' = EmptyMap /\ Idle' /\ tx' = <<ZeroFrame>>)
      ]_vars

\* C5: a set_rc_override call made while the link is not connected returns
\* failure, and every set_rc_override call that returns failure (the link not
\* connected, or the frame not sent) has transmitted nothing and leaves the
\* active flag, the channel map, the last-refresh time and both timers
\* unchanged.
C5_FailedSetChangesNothing ==
    [][ /\ (SetReturns /\ ~LinkUsable) => ~call'.ret
        /\ (SetReturns /\ ~call'.ret) => (tx' = <<>> /\ UNCHANGED ovState)
      ]_vars

\* set_rc_override failed on an Active override with no latch in the way
C5_Witness ==
    /\ call = [op |-> "set_rc_override", ret |-> FALSE]
    /\ ~emergency_stop_active
    /\ esPc = "idle"
    /\ rc_override_active
    /\ rc_override_channels # EmptyMap
    /\ rc_override_timer = "pending"
    /\ ~LinkUsable

\* ===================================================== claims, connection

GapEvents == {"gap_by_watchdog", "gap_by_reader", "gap_by_receive_loop"}
NoConnectMid == \A w \in Callers : pcConn[w] # "mid"

\* C6: while a heartbeat timer of the link is pending or running, a link that
\* is Connected never has a last heartbeat older than 5 s plus one watchdog
\* period: the gap has taken it out of Connected by then.
C6_GapLeavesConnected ==
    (is_connected /\ NoConnectMid /\ HbTimers > 0)
        => hbAge <= HbTimeout + WatchdogPeriod

\* C7: every step that takes the link out of Connected for a heartbeat gap
\* leaves a reconnect timer pending.
C7_GapArmsReconnect ==
    [][ (is_connected /\ ~is_connected' /\ connEvent' \in GapEvents)
           => reconnect_timer' = "pending" ]_vars

\* C8: every connect() that ends on the heartbeat timeout leaves the link
\* Disconnected with the reconnect timer pending.
C8_TimeoutSchedulesReconnect ==
    [][ \A w \in Callers :
           (pcConn[w] = "wait" /\ pcConn'[w] = "idle"
              /\ connEvent' = "connect_timeout")
           => (~is_connected' /\ reconnect_timer' = "pending") ]_vars

\* C9: from the return of disconnect() until the application calls connect()
\* again the link is Disconnected, no heartbeat timer is pending or running,
\* no reconnect timer is pending and the receive thread is dead.
C9_DisconnectStopsEverything ==
    discReturned => /\ ~is_connected
                    /\ HbTimers = 0
                    /\ reconnect_timer = "none"
                    /\ rxPc = "dead"
\* ================================================ RoverTelemetryProcessor
\* The handlers store decoded values under the processor's lock;
\* _on_connection_status_changed stores is_connected without it;
\* get_dashboard_data holds the lock and reads is_connected at line 397 and
\* again at line 450.

RollValues == {0, 30}
VoltValues == {0, 12}
RcValues == {NEUTRAL, 1600}

OfflineComposite ==
    [connection_status |-> FALSE, offline_mode |-> TRUE, roll |-> 0,
     voltage |-> 0, rc |-> NEUTRAL, returned |-> TRUE]

\* _handle_attitude, _handle_sys_status, _handle_rc_channels
handle_message == \E r \in RollValues, v \in VoltValues, c \in RcValues :
    /\ getPc = "idle"
    /\ attitude_roll' = r
    /\ battery_voltage' = v
    /\ rc_channel' = c
    /\ UNCHANGED <<linkVars, connVars, dispVars, cfgVars, lockVars, ctlVars, getPc, result, batVars>>

on_connection_status_changed == \E connected \in BOOLEAN :
    /\ tel_is_connected' = connected
    /\ UNCHANGED <<is_connected, connection, hbAge, connEvent, connVars, dispVars, cfgVars, lockVars,
                   ctlVars, telVars>>

\* get_dashboard_data, lines 395-445: the test, and the offline composite
get_dashboard_data_test ==
    /\ getPc = "idle"
    /\ IF ~tel_is_connected
       THEN result' = OfflineComposite /\ UNCHANGED getPc
       ELSE getPc' = "live" /\ UNCHANGED result
    /\ UNCHANGED <<linkVars, connVars, dispVars, cfgVars, lockVars, ctlVars, attitude_roll,
                   battery_voltage, rc_channel, batVars>>

\* get_dashboard_data, lines 448-493: the live composite
get_dashboard_data_live ==
    /\ getPc = "live"
    /\ getPc' = "idle"
    /\ result' = [connection_status |-> tel_is_connected,
                  offline_mode |-> FALSE, roll |-> attitude_roll,
                  voltage |-> battery_voltage, rc |-> rc_channel,
                  returned |-> TRUE]
    /\ UNCHANGED <<linkVars, connVars, dispVars, cfgVars, lockVars, ctlVars, attitude_roll,
                   battery_voltage, rc_channel, batVars>>

NextTel ==
    \/ handle_message
    \/ on_connection_status_changed
    \/ get_dashboard_data_test
    \/ get_dashboard_data_live

SpecTel == Init /\ [][NextTel]_vars

\* ====================================================== claims, telemetry

\* C10: a composite returned with connection_status false carries the offline
\* flag and the neutral defaults only.
C10_OfflineCompositeIsNeutral ==
    (result.returned /\ ~result.connection_status)
        => /\ result.offline_mode
           /\ result.roll = 0
           /\ result.voltage = 0
           /\ result.rc = NEUTRAL
\* ================================================= claims, controller (2)

ClearReturns == call'.op = "clear_rc_override"
DrivePulses == RC_OVERRIDE_MIN..RC_OVERRIDE_MAX

\* C11: a clear_rc_override call that transmits a frame removes the named
\* channels (all of them when none is named) from the map, keeps the others,
\* and the frame carries no drive pulse-width on a cleared channel.
C11_ClearSendsRelease ==
    [][ ClearReturns =>
          \A all \in BOOLEAN, chs \in SUBSET Chans, sendOk \in BOOLEAN :
             (clear_rc_override(all, chs, sendOk) /\ (all => chs = {})
                /\ call'.ret = ClearOk(all, chs, sendOk) /\ tx' # <<>>)
             => /\ rc_override_channels' =
                      IF all THEN EmptyMap ELSE DictPop(rc_override_channels, chs)
                /\ \A c \in (IF all THEN Chans ELSE chs) :
                      tx'[1][c] \notin DrivePulses ]_vars

\* C12: every clear_rc_override() of all channels leaves the controller Idle
\* with an empty map, and one that follows another clear call returns True.
C12_ClearIdempotent ==
    [][ (ClearReturns /\ \E sendOk \in BOOLEAN :
                             /\ clear_rc_override(TRUE, {}, sendOk)
                             /\ call'.ret = ClearOk(TRUE, {}, sendOk))
          => /\ Idle'
             /\ rc_override_channels' = EmptyMap
             /\ (call.op = "clear_rc_override" => call'.ret) ]_vars

RefreshRuns == mtQueued' = mtQueued - 1

C14_FailedRefreshStops ==
    [][ (RefreshRuns /\ rc_override_active /\ rc_override_channels # EmptyMap
           /\ tx' = <<>>)
          => (Idle' /\ TimersCancelled') ]_vars

\* a refresh has failed on a link that went silent: Idle with the channels
\* still in the map, which no other step produces
C14_Witness ==
    /\ call = NoCall
    /\ tx = <<>>
    /\ Idle
    /\ TimersCancelled
    /\ rc_override_channels # EmptyMap
    /\ connEvent = "gap_by_reader"
    /\ ~is_connected
    /\ mtQueued = 0
    /\ ovQueued = 0
    /\ ~emergency_stop_active

\* ================================================= claims, connection (2)

DownEvents == GapEvents \cup {"connect_timeout", "connect_error", "send_error"}

CommandCalls == {"set_flight_mode", "arm_vehicle", "disarm_vehicle"}

\* C18: a call of arm, disarm or set_mode made while the link is not
\* Connected sends no command and returns failure.
C18_CommandsGated ==
    [][ (call'.op \in CommandCalls /\ ~IsConnectedGet(is_connected, hbAge))
           => (cmdTx' = "none" /\ ~call'.ret) ]_vars

\* the refresh has something to send: the guard of _rc_maintain_callback
\* holds and a refresh timer is pending or its callback is about to run
RefreshLive ==
    /\ rc_override_active
    /\ rc_override_channels # EmptyMap
    /\ (rc_maintain_timer = "pending" \/ mtQueued > 0)

\* C19: release_emergency_stop() after a completed emergency stop clears the
\* latch, leaves the active flag and the channel map as they were, sends no
\* frame, and leaves no refresh that would transmit before a new
\* set_rc_override.
C19_ReleaseOnlyClearsLatch ==
    [][ (call'.op = "release_emergency_stop" /\ emergency_stop_active
            /\ esPc = "idle")
           => /\ ~emergency_stop_active'
              /\ UNCHANGED <<rc_override_active, rc_override_channels>>
              /\ tx' = <<>>
              /\ ~RefreshLive' ]_vars

\* C21: every value held in the channel map lies within [1000, 2000], and
\* every channel of a transmitted frame carries a value within [1000, 2000]
\* or the release value 0.
C21_ClampAlwaysApplied ==
    /\ \A c \in DOMAIN rc_override_channels :
          rc_override_channels[c] \in DrivePulses
    /\ \A i \in 1..Len(tx) : \A c \in Chans :
          tx[i][c] \in DrivePulses \cup {0}

\* C23: a set_rc_override that returns success has merged the clamped
\* request into the channel map and has sent one frame that carries the
\* whole merged map.
C23_SetSendsMergedMap ==
    [][ (call'.op = "set_rc_override" /\ call'.ret)
           => /\ \E req \in Requests :
                    rc_override_channels' =
                       DictUpdate(rc_override_channels,
                                  apply_safety_limits(safety_limits_enabled, req))
              /\ Len(tx') = 1
              /\ \A c \in DOMAIN rc_override_channels' :
                    tx'[1][c] = Max(FRAME_MIN, Min(rc_override_channels'[c], FRAME_MAX)) ]_vars

C33_CommandsLeaveOverride ==
    [][ call'.op \in CommandCalls
          => UNCHANGED <<rc_override_active, rc_override_channels,
                         emergency_stop_active, rc_override_timer,
                         rc_maintain_timer>> ]_vars

\* set_mode failed to send while an override was Active, and it still is
C33_Witness ==
    /\ call = [op |-> "set_flight_mode", ret |-> FALSE]
    /\ cmdTx = "none"
    /\ rc_override_active /\ rc_override_channels # EmptyMap
    /\ rc_maintain_timer = "pending"

\* C34: emergency_stop() returns success only when the change to the
\* holding mode was sent and the clear went through (the controller is Idle).
C34_EStopReportsFailure ==
    [][ (call'.op = "emergency_stop" /\ call'.ret)
          => (cmdTx' = "set_mode" /\ Idle') ]_vars

\* C35: while the emergency-stop latch is set, no frame is transmitted that
\* carries a drive pulse-width on any channel.
C35_NoDriveWhileLatched ==
    emergency_stop_active
        => \A i \in 1..Len(tx) : \A c \in Chans : tx[i][c] \notin DrivePulses

\* C36: whenever the controller is Idle the channel map is empty.
C36_IdleMapEmpty == Idle => rc_override_channels = EmptyMap

\* C37: whenever the controller is Active a safety deadline is pending: its
\* timer is armed, or it has expired and its callback is about to run.
C37_ActiveHasDeadline ==
    rc_override_active => (rc_override_timer = "pending" \/ ovQueued > 0)

DeadlineRuns == ovQueued' = ovQueued - 1

\* C24: a deadline callback that runs while the deadline timer armed by the
\* latest set_rc_override is still pending (that call's timeout has not
\* elapsed) leaves the override installed by that call in place.
C24_SetSupersedesDeadline ==
    [][ (DeadlineRuns /\ rc_override_active /\ rc_override_timer = "pending")
           => (rc_override_active'
               /\ rc_override_channels' = rc_override_channels) ]_vars

\* C25: with the refresh callback and the deadline callback both fired, the
\* deadline callback leaves the controller Idle with an empty map and no
\* timer armed, whether it runs before or after the refresh callback, and a
\* refresh callback that runs after the clear sends nothing and arms nothing.
C25_ConcurrentTimersSettle ==
    [][ /\ (DeadlineRuns /\ mtQueued > 0)
             => (Idle' /\ rc_override_channels' = EmptyMap /\ TimersCancelled')
        /\ (RefreshRuns /\ Idle /\ rc_override_channels = EmptyMap)
             => (tx' = <<>> /\ UNCHANGED <<rc_override_active,
                                           rc_override_channels,
                                           rc_override_timer,
                                           rc_maintain_timer>>) ]_vars

\* ====================================== battery snapshot and the histories
\* RoverTelemetryProcessor._handle_sys_status / _handle_battery_status and
\* the history lists of app.update_mavlink_data.  Voltages are raw
\* millivolts, stored as whole volts.

NoData == 0 - 1
RawVoltages == {11000, 12000, VOLT_SENTINEL}
RawRemaining == {80, NoData}

\* collections.deque(maxlen=n).append
DequeAppend(q, x, n) == IF Len(q) < n THEN Append(q, x) ELSE Append(Tail(q), x)

\* [d for d in history[key] if d['timestamp'] >= cutoff_time]
FilterSince(q, cutoff) == SelectSeq(q, LAMBDA t : t >= cutoff)

\* history[key][-n:] when the list is longer than n
LastN(q, n) == IF Len(q) > n THEN SubSeq(q, Len(q) - n + 1, Len(q)) ELSE q

\* SYS_STATUS: every field is stored as received; no history point
handle_sys_status == \E rv \in RawVoltages, rr \in RawRemaining :
    /\ getPc = "idle"
    /\ battery_voltage' = rv \div 1000
    /\ battery_remaining' = rr
    /\ data_notified' = "system_status"
    /\ UNCHANGED <<linkVars, connVars, dispVars, cfgVars, lockVars, ctlVars, attitude_roll, rc_channel,
                   getPc, result, battery_history, app_history, histNow>>

\* BATTERY_STATUS: a field is stored unless it is the sentinel; one point is
\* appended to battery_history
handle_battery_status == \E rv \in RawVoltages, rr \in RawRemaining :
    /\ getPc = "idle"
    /\ battery_voltage' = IF rv # VOLT_SENTINEL THEN rv \div 1000
                          ELSE battery_voltage
    /\ battery_remaining' = IF rr # NoData THEN rr ELSE battery_remaining
    /\ battery_history' = DequeAppend(battery_history, histNow, MaxHistoryPoints)
    /\ data_notified' = "battery"
    /\ UNCHANGED <<linkVars, connVars, dispVars, cfgVars, lockVars, ctlVars, attitude_roll, rc_channel,
                   getPc, result, app_history, histNow>>

\* update_mavlink_data, lines 208-247: a point is appended, the clock is read
\* again, points older than the window and then all but the last PointCap
\* are dropped
update_history == \E d \in 0..1 :
    /\ histNow + d <= MaxClock
    /\ histNow' = histNow + d
    /\ app_history' = LastN(FilterSince(Append(app_history, histNow),
                                        histNow + d - PlaybackWindow),
                            PointCap)
    /\ UNCHANGED <<linkVars, connVars, dispVars, cfgVars, lockVars, ctlVars, attitude_roll, battery_voltage,
                   rc_channel, getPc, result, battery_remaining,
                   battery_history, data_notified>>

\* time passes
HistTick ==
    /\ histNow < MaxClock
    /\ histNow' = histNow + 1
    /\ UNCHANGED <<linkVars, connVars, dispVars, cfgVars, lockVars, ctlVars, attitude_roll, battery_voltage,
                   rc_channel, getPc, result, battery_remaining,
                   battery_history, app_history, data_notified>>

NextHist ==
    \/ handle_sys_status
    \/ handle_battery_status
    \/ update_history
    \/ HistTick

SpecHist == Init /\ [][NextHist]_vars

\* ======================================================= claims, histories

WithinCaps(h) ==
    /\ Len(h) <= PointCap
    /\ \A i \in 1..Len(h) : h[Len(h)] - h[i] <= PlaybackWindow

\* C16: every history series holds at most the point cap and no point older
\* than the playback window relative to its newest point.
C16_HistoryCaps == WithinCaps(battery_history) /\ WithinCaps(app_history)

\* C17: a battery update whose raw field is the sentinel leaves that field of
\* the snapshot as it was.
C17_SentinelKeepsValue ==
    [][ (battery_voltage' = VOLT_SENTINEL \div 1000
            => battery_voltage = VOLT_SENTINEL \div 1000)
        /\ (battery_remaining' = NoData => battery_remaining = NoData) ]_vars

\* ================================================= claims, connection (3)

\* C20: when a callback raises while a message is dispatched, every callback
\* registered for the message type has still been invoked, the receive loop
\* is back at its loop test with the running flag as it was, and from there
\* it goes on to the next message as long as the link is connected.
C20_FailingSubscriberIsolated ==
    /\ [][ (rxPc = "body" /\ rxPc' = "top" /\ cbRaised' # {})
             => /\ \A i \in 1..Len(message_callbacks[lastMsg']) :
                      \E j \in 1..Len(delivered') :
                         delivered'[j] = message_callbacks[lastMsg'][i]
                /\ running' = running ]_vars
    /\ [][ (rxPc = "top" /\ cbRaised # {} /\ running /\ connection # "none"
               /\ IsConnectedGet(is_connected, hbAge))
             => (rxPc' = rxPc \/ rxPc' = "body" \/ ~running') ]_vars

\* the first callback raised, the second was still invoked, and the loop is
\* processing the next message
C20_Witness ==
    /\ lastMsg = "ATTITUDE"
    /\ cbRaised = {"cb1"}
    /\ delivered = <<"cb1", "cb2">>
    /\ rxPc = "body"
    /\ running

\* get_dashboard_data called now takes the offline branch (line 397)
DashboardOffline == ~tel_is_connected

\* C22: whenever the connection manager is not Connected and no connect()
\* is between its two status updates, get_dashboard_data returns the offline
\* composite.
C22_AggregatorAgrees ==
    (~is_connected /\ NoConnectMid) => DashboardOffline

ConnectReturnsTrue == \E w \in Callers : pcConn[w] = "mid" /\ pcConn'[w] = "idle"

\* C27: when connect() returns success the link is Connected, a heartbeat
\* timer is pending or running and the receive loop is running.
C27_ConnectSuccessState ==
    [][ ConnectReturnsTrue
           => /\ is_connected'
              /\ IsConnectedGet(is_connected', hbAge')
              /\ HbTimers' > 0
              /\ running' /\ rxPc' # "dead" ]_vars

\* C28: a heartbeat processed by the receive loop issues the data-stream
\* configuration only if the configuration of this connection had not yet
\* completed, and the configuration is issued at most once per connection.
C28_ConfigurationOnce ==
    [][ (rxPc = "body" /\ rxPc' = "top" /\ lastMsg' = "HEARTBEAT")
           => /\ cfgIssued' # cfgIssued => ~stream_rates_requested
              /\ cfgIssued' <= 1 ]_vars

HeartbeatLost ==
    ~is_connected /\ connEvent \in GapEvents /\ ~discReturned /\ NoConnectMid

\* C26: while the link is in HeartbeatLost some activity reads the
\* transport, so that a heartbeat the vehicle sends is received: the
\* receive loop is alive, or a connect() is waiting for a heartbeat.
C26_HeartbeatLostStillListens ==
    HeartbeatLost => (rxPc # "dead" \/ \E w \in Callers : pcConn[w] = "wait")

\* C31: every update that changes the battery snapshot appends one point,
\* timestamped at update time, to the battery history and notifies the
\* battery observers.
C31_BatteryUpdateAppends ==
    [][ (battery_voltage' # battery_voltage
           \/ battery_remaining' # battery_remaining)
          => /\ battery_history' =
                   DequeAppend(battery_history, histNow, MaxHistoryPoints)
             /\ data_notified' = "battery" ]_vars

\* ================================================ locks and observers
\* A telemetry handler on the receive thread and a controller operation on
\* the application thread, each up to and including the observer callbacks
\* it invokes; the observers may query the other component.

\* threading.RLock.acquire: free, or already held by the same thread
CanAcquire(l, t) == lockOwner[l] \in {"none", t}

\* _handle_attitude, lines 193-210: the lock is taken and the snapshot written
handle_attitude_enter == \E r \in RollValues :
    /\ thPc["rx"] = "idle"
    /\ CanAcquire("tel", "rx")
    /\ lockOwner' = [lockOwner EXCEPT !["tel"] = "rx"]
    /\ attitude_roll' = r
    /\ thPc' = [thPc EXCEPT !["rx"] = "notify"]
    /\ UNCHANGED <<linkVars, connVars, dispVars, cfgVars, ctlVars,
                   battery_voltage, rc_channel, getPc, result, batVars>>

\* _handle_attitude, line 211, and _notify_data_update: a data observer is
\* called inside the with block; query: it calls get_control_status()
data_observer_runs == \E query \in BOOLEAN :
    /\ thPc["rx"] = "notify"
    /\ thPc' = [thPc EXCEPT !["rx"] = IF query THEN "query" ELSE "done"]
    /\ UNCHANGED <<linkVars, connVars, dispVars, cfgVars, lockOwner, ctlVars,
                   telVars>>

\* get_control_status, lines 355-363, called by the data observer: the
\* controller lock is taken, the status copied, the lock released
get_control_status ==
    /\ thPc["rx"] = "query"
    /\ CanAcquire("ctl", "rx")
    /\ thPc' = [thPc EXCEPT !["rx"] = "queried"]
    /\ UNCHANGED <<linkVars, connVars, dispVars, cfgVars, lockOwner, ctlVars,
                   telVars>>

\* the with block of the handler ends
handle_attitude_exit ==
    /\ thPc["rx"] \in {"done", "queried"}
    /\ lockOwner' = [lockOwner EXCEPT !["tel"] = "none"]
    /\ thPc' = [thPc EXCEPT !["rx"] = "idle"]
    /\ UNCHANGED <<linkVars, connVars, dispVars, cfgVars, ctlVars, telVars>>

\* set_rc_override, lines 99-115: a call that fails returns without
\* notifying; one that succeeds goes on to line 116 with the lock held
set_rc_override_enter == \E req \in Requests, timeout \in Timeouts, sendOk \in BOOLEAN :
    /\ thPc["app"] = "idle"
    /\ CanAcquire("ctl", "app")
    /\ set_rc_override(req, timeout, sendOk)
    /\ cmdTx' = "none"
    /\ IF call'.ret
       THEN /\ lockOwner' = [lockOwner EXCEPT !["ctl"] = "app"]
            /\ thPc' = [thPc EXCEPT !["app"] = "notify"]
       ELSE UNCHANGED lockVars
    /\ UNCHANGED <<connVars, dispVars, cfgVars, telVars>>

\* set_rc_override, line 116, and _notify_control_update: a control observer
\* is called inside the with block; query: it calls get_dashboard_data()
control_observer_runs == \E query \in BOOLEAN :
    /\ thPc["app"] = "notify"
    /\ thPc' = [thPc EXCEPT !["app"] = IF query THEN "query" ELSE "done"]
    /\ UNCHANGED <<linkVars, connVars, dispVars, cfgVars, lockOwner, ctlVars,
                   telVars>>

\* get_dashboard_data, lines 395-493, called by the control observer: the
\* telemetry lock is taken, the composite built, the lock released
get_dashboard_data ==
    /\ thPc["app"] = "query"
    /\ CanAcquire("tel", "app")
    /\ result' = IF ~tel_is_connected THEN OfflineComposite
                 ELSE [connection_status |-> tel_is_connected,
                       offline_mode |-> FALSE, roll |-> attitude_roll,
                       voltage |-> battery_voltage, rc |-> rc_channel,
                       returned |-> TRUE]
    /\ thPc' = [thPc EXCEPT !["app"] = "queried"]
    /\ UNCHANGED <<linkVars, connVars, dispVars, cfgVars, lockOwner, ctlVars,
                   attitude_roll, battery_voltage, rc_channel, getPc, batVars>>

\* set_rc_override, line 117: return True, the with block ends
set_rc_override_exit ==
    /\ thPc["app"] \in {"done", "queried"}
    /\ lockOwner' = [lockOwner EXCEPT !["ctl"] = "none"]
    /\ thPc' = [thPc EXCEPT !["app"] = "idle"]
    /\ UNCHANGED <<linkVars, connVars, dispVars, cfgVars, ctlVars, telVars>>

NextLock ==
    \/ handle_attitude_enter
    \/ data_observer_runs
    \/ get_control_status
    \/ handle_attitude_exit
    \/ set_rc_override_enter
    \/ control_observer_runs
    \/ get_dashboard_data
    \/ set_rc_override_exit
    \/ LinkUp

SpecLock == Init /\ [][NextLock]_vars

\* ========================================================= claims, locks

\* a thread is inside an observer callback, or inside a query the observer made
InObserver(t) == thPc[t] \in {"query", "queried", "done"}

\* C29: no thread holds the telemetry lock or the controller lock while an
\* observer callback it invoked is running.
C29_NoLockInObserver ==
    \A t \in Threads : InObserver(t) => \A l \in Locks : lockOwner[l] # t

\* C30: the data observer's get_control_status() and the control observer's
\* get_dashboard_data() never wait for each other's lock.
C30_NoCircularWait ==
    ~(/\ thPc["rx"] = "query" /\ lockOwner["ctl"] = "app"
      /\ thPc["app"] = "query" /\ lockOwner["tel"] = "rx")

\* ---------------------------------------------------------------- claims, connection (4)

\* C38: at most one heartbeat timer of the link is pending at any time:
\* after a connect, a heartbeat loss, a reconnect or a disconnect there is
\* never a second recurring timer.
C38_OneHeartbeatTimer == hbDue + hbLater <= 1

\* a connect() gets a transport handle from mavlink_connection (lines 106-117)
TransportOpened == \E w \in Callers : pcConn[w] = "idle" /\ pcConn'[w] = "wait"

\* C39: connect() opens a transport only when no handle opened earlier is
\* still open, whoever starts the connect.
C39_OneTransportHandle == [][ TransportOpened => connection = "none" ]_vars

\* C40: the notification True that connect() delivers on success reaches
\* subscribers whose last notification was not True: two consecutive
\* notifications never carry the same value.
C40_NotifiedOncePerChange ==
    [][ (ConnectReturnsTrue /\ is_connected') => ~tel_is_connected ]_vars
====
